---- MODULE Spec2Model ----
(***************************************************************************)
(* Model of android/scripts/ensure_16k_page.py: the ELF program-header     *)
(* patcher that raises p_align of PT_LOAD entries to 16 KiB.               *)
(*                                                                         *)
(* A file is a sequence of bytes (TLA+ sequences are 1-based, so the byte  *)
(* the source calls data[i] is data[i + 1] here).  One invocation of main  *)
(* is a chain of steps (open/read, read_header, the zero check, one step   *)
(* per loop iteration, open of the temporary file, write, os.replace, the  *)
(* confirmation print, the except handler); every step that touches the    *)
(* filesystem or a stream may fail.  Invocations follow each other on the  *)
(* same path, each a fresh process.                                        *)
(***************************************************************************)
EXTENDS Integers, Sequences, FiniteSets, TLC

\* ------------------------------------------------------------ constants
PAGE_SIZE == 16384
ELF_MAGIC == <<127, 69, 76, 70>>
EI_CLASS == 4
ELFCLASS32 == 1
ELFCLASS64 == 2
EI_DATA == 5
ELFDATA2LSB == 1
PT_LOAD == 1

\* ------------------------------------------------------------ bounds
\* Largest e_phnum of the generated input images.
MaxPhnum == 2
\* Integers decoded from the image are exact below ValueCap and ValueCap from
\* there on: the code only compares them with PAGE_SIZE and with len(data),
\* both far below it.
ValueCap == 16777216

\* ------------------------------------------------------------ bytes
RECURSIVE ToBytesLE(_, _)
ToBytesLE(v, n) ==
  IF n = 0 THEN <<>> ELSE <<v % 256>> \o ToBytesLE(v \div 256, n - 1)

Reverse(s) == [i \in 1..Len(s) |-> s[Len(s) + 1 - i]]

Zeros(n) == [i \in 1..n |-> 0]

\* data[off : off + n]
Slice(data, off, n) == [i \in 1..n |-> data[off + i]]

\* data[:n]: Python slicing never fails, it returns what there is.
Take(data, n) == SubSeq(data, 1, IF n < Len(data) THEN n ELSE Len(data))

\* data[off : off + len(bs)] = bs
Put(data, off, bs) ==
  [i \in 1..Len(data) |->
     IF i - 1 >= off /\ i - 1 < off + Len(bs) THEN bs[i - off] ELSE data[i]]

\* The integer a little-endian byte string denotes, capped at ValueCap.
ToInt(le) ==
  IF \E i \in 4..Len(le) : le[i] # 0
  THEN ValueCap
  ELSE (IF Len(le) >= 1 THEN le[1] ELSE 0)
       + (IF Len(le) >= 2 THEN 256 * le[2] ELSE 0)
       + (IF Len(le) >= 3 THEN 65536 * le[3] ELSE 0)

\* struct.pack(f"{endian}X", value) for a field of n bytes.
pack(endian, n, value) ==
  IF endian = "<" THEN ToBytesLE(value, n) ELSE Reverse(ToBytesLE(value, n))

\* struct.unpack_from raises struct.error unless the field lies in the buffer.
CanUnpack(data, off, n) == off + n <= Len(data)

\* struct.unpack_from(f"{endian}X", data, off)[0] for a field of n bytes.
unpack_from(endian, n, data, off) ==
  ToInt(IF endian = "<" THEN Slice(data, off, n) ELSE Reverse(Slice(data, off, n)))

\* struct.pack_into(f"{endian}X", data, off, value)
pack_into(endian, n, data, off, value) == Put(data, off, pack(endian, n, value))

\* ------------------------------------------------------------ read_header
\* Field offsets and widths of the ELF header, by class.
PhoffAt(elf_class) == IF elf_class = ELFCLASS64 THEN 32 ELSE 28
PhoffSize(elf_class) == IF elf_class = ELFCLASS64 THEN 8 ELSE 4
PhentsizeAt(elf_class) == IF elf_class = ELFCLASS64 THEN 54 ELSE 42
PhnumAt(elf_class) == IF elf_class = ELFCLASS64 THEN 56 ELSE 44

NoHeader(e, reads) ==
  [err |-> e, reads |-> reads, elf_class |-> 0, endian |-> "", e_phoff |-> 0,
   e_phentsize |-> 0, e_phnum |-> 0]

\* Mutant of BadMagic: the magic is compared only when four bytes are there.
BadMagic_OnlyFullLength(data) == Len(data) >= 4 /\ Take(data, 4) # ELF_MAGIC

\* if data[:4] != ELF_MAGIC
BadMagic(data) == Take(data, 4) # ELF_MAGIC

\* Mutant of BadClass: every class byte from ELFCLASS32 up is accepted.
BadClass_OnlyBelow(elf_class) == elf_class < ELFCLASS32

\* if elf_class not in (ELFCLASS32, ELFCLASS64)
BadClass(elf_class) == elf_class \notin {ELFCLASS32, ELFCLASS64}

\* read_header(data): the five values it returns, or the exception it raises
\* (err), with the fields it read on the way, in order (reads).
\* Mutant of ByteOrder: only the value 2 selects big-endian.
ByteOrder_MsbOnly(ei_data) == IF ei_data = 2 THEN ">" ELSE "<"

\* read_header, line 34: endian = "<" if data[EI_DATA] == ELFDATA2LSB else ">"
ByteOrder(ei_data) == IF ei_data = ELFDATA2LSB THEN "<" ELSE ">"

read_header(data) ==
  IF BadMagic(data) THEN NoHeader("NotElf", <<"magic">>)
  ELSE IF Len(data) <= EI_CLASS THEN NoHeader("IndexError", <<"magic", "class">>)
  ELSE IF BadClass(data[EI_CLASS + 1])
    THEN NoHeader("UnsupportedClass", <<"magic", "class">>)
  ELSE IF Len(data) <= EI_DATA
    THEN NoHeader("IndexError", <<"magic", "class", "data">>)
  ELSE
    LET elf_class == data[EI_CLASS + 1]
        endian == ByteOrder(data[EI_DATA + 1])
    IN  IF ~CanUnpack(data, PhoffAt(elf_class), PhoffSize(elf_class))
          THEN NoHeader("StructError", <<"magic", "class", "data", "e_phoff">>)
        ELSE IF ~CanUnpack(data, PhentsizeAt(elf_class), 2)
          THEN NoHeader("StructError",
                        <<"magic", "class", "data", "e_phoff", "e_phentsize">>)
        ELSE IF ~CanUnpack(data, PhnumAt(elf_class), 2)
          THEN NoHeader("StructError",
                 <<"magic", "class", "data", "e_phoff", "e_phentsize", "e_phnum">>)
        ELSE
          [err |-> "none",
           reads |-> <<"magic", "class", "data", "e_phoff", "e_phentsize", "e_phnum">>,
           elf_class |-> elf_class,
           endian |-> endian,
           e_phoff |-> unpack_from(endian, PhoffSize(elf_class), data, PhoffAt(elf_class)),
           e_phentsize |-> unpack_from(endian, 2, data, PhentsizeAt(elf_class)),
           e_phnum |-> unpack_from(endian, 2, data, PhnumAt(elf_class))]

\* ------------------------------------------------------------ the scan
\* Sub-offset and width of the alignment field the loop body uses, by class.
AlignAt(elf_class) == IF elf_class = ELFCLASS64 THEN 56 ELSE 28

\* Mutant of AlignSize: the field is taken to be 4 bytes wide in both classes.
AlignSize_Always4(elf_class) == 4

AlignSize(elf_class) == IF elf_class = ELFCLASS64 THEN 8 ELSE 4

\* entry_offset = phoff + index * phentsize
EntryOffset(h, index) == h.e_phoff + index * h.e_phentsize

\* The bounds guard of the loop: True means break.
OutOfBounds(data, h, index) == EntryOffset(h, index) + h.e_phentsize > Len(data)

\* Mutant of NeedsPatch: only an alignment of zero is patched.
NeedsPatch_OnlyZero(align) == align = 0

\* if align == 0 or align < PAGE_SIZE
NeedsPatch(align) == align = 0 \/ align < PAGE_SIZE

\* One iteration of the for loop on entry `index`: what it does (kind) and the
\* buffer it leaves.  "break": the bounds guard; "raise": a struct.error of one
\* of the two unpack_from calls; "continue": p_type is not PT_LOAD; "patch":
\* the field is overwritten; "keep": a PT_LOAD entry left as it is.
ScanEntry(data, h, index) ==
  LET entry_offset == EntryOffset(h, index)
      align_offset == entry_offset + AlignAt(h.elf_class)
      align_size == AlignSize(h.elf_class)
  IN  IF OutOfBounds(data, h, index) THEN [kind |-> "break", data |-> data]
      ELSE IF ~CanUnpack(data, entry_offset, 4) THEN [kind |-> "raise", data |-> data]
      ELSE IF ~CanUnpack(data, align_offset, align_size)
        THEN [kind |-> "raise", data |-> data]
      ELSE IF unpack_from(h.endian, 4, data, entry_offset) # PT_LOAD
        THEN [kind |-> "continue", data |-> data]
      ELSE IF NeedsPatch(unpack_from(h.endian, align_size, data, align_offset))
        THEN [kind |-> "patch",
              data |-> pack_into(h.endian, align_size, data, align_offset, PAGE_SIZE)]
      ELSE [kind |-> "keep", data |-> data]

\* ------------------------------------------------------------ input images
\* The files the invocations are run on.  An image is laid out like an ELF
\* file: a header of the class's size, then e_phnum entries of e_phentsize
\* bytes each, each given a p_type and an alignment value at the sub-offset
\* the scan uses, then zero bytes.  Entry sizes are the regular ones (0x38 is
\* sizeof(Elf64_Phdr), 0x20 is sizeof(Elf32_Phdr)), the size the scan's
\* sub-offsets fit in (0x40), and sizes smaller than a field.
HeaderSize(elf_class) == IF elf_class = ELFCLASS64 THEN 64 ELSE 52

\* Entry sizes that hold a whole entry of the class's format or more.
RegularSizes(elf_class) == IF elf_class = ELFCLASS64 THEN {56, 64} ELSE {32}

\* Entry sizes smaller than the alignment field itself.
SmallSizes(elf_class) == IF elf_class = ELFCLASS64 THEN {7} ELSE {3}

\* Alignment values, as little-endian byte strings of n bytes: 0, 1, 4096,
\* 24576 (not a power of two), and 2^(8n-8).
AlignBytes(a, n) ==
  CASE a = "zero" -> Zeros(n)
    [] a = "one" -> ToBytesLE(1, n)
    [] a = "small" -> ToBytesLE(4096, n)
    [] a = "big" -> ToBytesLE(24576, n)
    [] OTHER -> Put(Zeros(n), n - 1, <<1>>)

\* <<p_type, alignment>> of a generated entry (0 is PT_NULL).
EntryKinds ==
  {<<0, "small">>, <<PT_LOAD, "zero">>, <<PT_LOAD, "one">>, <<PT_LOAD, "small">>,
   <<PT_LOAD, "big">>, <<PT_LOAD, "top">>}

EndianOf(ei_data) == IF ei_data = ELFDATA2LSB THEN "<" ELSE ">"

Encode(endian, le) == IF endian = "<" THEN le ELSE Reverse(le)

MakeHeader(buf, elf_class, ei_data, phoff, phentsize, phnum) ==
  LET e == EndianOf(ei_data)
      b1 == Put(buf, 0, ELF_MAGIC \o <<elf_class, ei_data>>)
      b2 == Put(b1, PhoffAt(elf_class), pack(e, PhoffSize(elf_class), phoff))
      b3 == Put(b2, PhentsizeAt(elf_class), pack(e, 2, phentsize))
  IN  Put(b3, PhnumAt(elf_class), pack(e, 2, phnum))

RECURSIVE PlaceEntries(_, _, _, _, _, _, _)
PlaceEntries(buf, elf_class, endian, phoff, phentsize, entries, k) ==
  IF k > Len(entries) THEN buf
  ELSE
    LET off == phoff + (k - 1) * phentsize
        b1 == Put(buf, off, pack(endian, 4, entries[k][1]))
        b2 == Put(b1, off + AlignAt(elf_class),
                  Encode(endian, AlignBytes(entries[k][2], AlignSize(elf_class))))
    IN  PlaceEntries(b2, elf_class, endian, phoff, phentsize, entries, k + 1)

\* "slack": zero bytes follow the table; "tight": the file ends with the
\* table; "cut": the file ends one byte before the end of the table.
ImageLen(elf_class, phentsize, phnum, lenMode) ==
  LET tableEnd == HeaderSize(elf_class) + phnum * phentsize
  IN  CASE lenMode = "slack" -> tableEnd + 72
        [] lenMode = "tight" -> tableEnd
        [] OTHER -> tableEnd - 1

MakeImage(elf_class, ei_data, phentsize, entries, lenMode) ==
  LET phnum == Len(entries)
      phoff == HeaderSize(elf_class)
      full == Zeros(ImageLen(elf_class, phentsize, phnum, "slack"))
      hdr0 == MakeHeader(full, elf_class, ei_data, phoff, phentsize, phnum)
      img == PlaceEntries(hdr0, elf_class, EndianOf(ei_data), phoff, phentsize,
                          entries, 1)
  IN  Take(img, ImageLen(elf_class, phentsize, phnum, lenMode))

EntryLists == UNION {[1..n -> EntryKinds] : n \in 0..MaxPhnum}

RegularImages ==
  UNION {{MakeImage(c, d, s, es, m) :
            d \in {1, 2}, s \in RegularSizes(c), es \in EntryLists,
            m \in {"slack", "tight", "cut"}} : c \in {ELFCLASS32, ELFCLASS64}}

SmallEntryImages ==
  UNION {{MakeImage(c, d, s, es, m) :
            d \in {1, 2}, s \in SmallSizes(c), es \in EntryLists,
            m \in {"slack", "tight", "cut"}} : c \in {ELFCLASS32, ELFCLASS64}}

\* One PT_LOAD entry of alignment 0 in an entry of the size the scan's
\* sub-offsets fit in; the special images below are variations of it.
BaseImage(elf_class, ei_data) ==
  MakeImage(elf_class, ei_data, IF elf_class = ELFCLASS64 THEN 64 ELSE 32,
            <<<<PT_LOAD, "zero">>>>, "slack")

\* Files that are cut inside the header, the empty file included.
TruncatedImages ==
  {Take(BaseImage(c, 1), n) : c \in {ELFCLASS32, ELFCLASS64}, n \in {0, 3, 4, 5, 40}}

\* Files whose first four bytes are not the magic.
BadMagicImages ==
  {Put(BaseImage(c, 1), i, <<0>>) : c \in {ELFCLASS32, ELFCLASS64}, i \in {0, 3}}
    \cup {<<127, 69>>, <<77, 90, 144, 0, 3>>}

\* Files with a class byte other than 1 and 2.
BadClassImages ==
  {Put(BaseImage(c, d), EI_CLASS, <<x>>) :
     c \in {ELFCLASS32, ELFCLASS64}, d \in {1, 2}, x \in {0, 3, 255}}

\* Files with a data-encoding byte other than 1 and 2, laid out big-endian.
OddDataImages == {BaseImage(c, d) : c \in {ELFCLASS32, ELFCLASS64}, d \in {0, 3}}

\* Files whose header declares a zero table offset or a zero entry size,
\* with the bytes of a PT_LOAD entry of alignment 0 after the header.
ZeroTableImages ==
  {MakeHeader(BaseImage(c, d), c, d, z[1], z[2], 1) :
     c \in {ELFCLASS32, ELFCLASS64}, d \in {1, 2},
     z \in {<<0, 64>>, <<64, 0>>, <<0, 0>>}}

\* The images whose entries are of a regular size, and the malformed ones.
RegularInputImages ==
  RegularImages \cup TruncatedImages \cup BadMagicImages \cup BadClassImages
    \cup OddDataImages \cup ZeroTableImages

InputImages == RegularInputImages \cup SmallEntryImages

\* ------------------------------------------------------------ state
VARIABLES
  argc,      \* len(sys.argv) of the invocation
  disk,      \* the bytes at the target path
  tmp,       \* the sibling path <path>.tmp16k: whether it exists, its bytes
  data,      \* apply_alignment's bytearray
  hdr,       \* what read_header returned
  index,     \* the loop variable
  changed,   \* apply_alignment's flag
  updated,   \* what apply_alignment returned: "unset", "True" or "False"
  err,       \* the exception being handled, "none" if none
  pc,        \* where the invocation is
  exitCode,  \* main's return value, NoExit while there is none
  escaped,   \* an exception left main
  stdout,    \* what the invocation printed
  stderr,    \* what the invocation printed to sys.stderr
  wrote,     \* the filesystem writes the invocation performed
  orig,      \* the bytes at the target path when the invocation started
  origTmp,   \* the temporary path when the invocation started
  prev,      \* what apply_alignment returned in the invocation before
  procs      \* the processes of two concurrent invocations, <<>> without them

vars ==
  <<argc, disk, tmp, data, hdr, index, changed, updated, err, pc, exitCode,
    escaped, stdout, stderr, wrote, orig, origTmp, prev, procs>>

NoExit == 0 - 1
NoFile == [exists |-> FALSE, bytes |-> <<>>]
NoHdr == NoHeader("none", <<>>)

\* A fresh process: nothing read, nothing printed.
Fresh ==
  /\ data = <<>> /\ hdr = NoHdr /\ index = 0 /\ changed = FALSE
  /\ updated = "unset" /\ err = "none" /\ pc = "main" /\ exitCode = NoExit
  /\ escaped = FALSE /\ stdout = <<>> /\ stderr = <<>> /\ wrote = {}

InitFrom(images) ==
  /\ disk \in images
  /\ argc \in {1, 2, 3}
  /\ argc # 2 => disk = BaseImage(ELFCLASS64, 1)
  /\ tmp = NoFile
  /\ orig = disk
  /\ origTmp = tmp
  /\ prev = "first"
  /\ procs = <<>>
  /\ Fresh

Init == InitFrom(InputImages)

\* The invocations on files whose entries are of a regular size only.
InitRegular == InitFrom(RegularInputImages)

\* ------------------------------------------------------------ main
\* raise: the exception travels to main's except clause.
Raise(e) == /\ err' = e /\ pc' = "except"

\* main, lines 95-99: the argument count.  The usage message goes to
\* sys.stderr; a print that fails raises outside the try block.
CheckArgs ==
  /\ pc = "main"
  /\ IF argc # 2
     THEN \E ok \in BOOLEAN :
            /\ stderr' = IF ok THEN Append(stderr, "usage") ELSE stderr
            /\ exitCode' = IF ok THEN 1 ELSE NoExit
            /\ escaped' = ~ok
            /\ pc' = "done"
     ELSE /\ pc' = "open"
          /\ UNCHANGED <<stderr, exitCode, escaped>>
  /\ UNCHANGED <<argc, disk, tmp, data, hdr, index, changed, updated, err,
                 stdout, wrote, orig, origTmp, prev>>
  /\ UNCHANGED procs

\* apply_alignment, lines 49-50: open(path, "rb") and read; either may fail.
ReadFile ==
  /\ pc = "open"
  /\ \/ /\ data' = disk
        /\ pc' = "read_header"
        /\ UNCHANGED err
     \/ /\ Raise("OSError")
        /\ UNCHANGED data
  /\ UNCHANGED <<argc, disk, tmp, hdr, index, changed, updated, exitCode,
                 escaped, stdout, stderr, wrote, orig, origTmp, prev>>
  /\ UNCHANGED procs

\* apply_alignment, line 52.
ReadHeader ==
  /\ pc = "read_header"
  /\ LET h == read_header(data)
     IN  /\ hdr' = h
         /\ IF h.err = "none"
            THEN pc' = "validated" /\ UNCHANGED err
            ELSE Raise(h.err)
  /\ UNCHANGED <<argc, disk, tmp, data, index, changed, updated, exitCode,
                 escaped, stdout, stderr, wrote, orig, origTmp, prev>>
  /\ UNCHANGED procs

\* if phoff == 0 or phentsize == 0 or phnum == 0
\* Mutant of EmptyTable: only a zero entry count ends the function early.
EmptyTable_CountOnly(h) == h.e_phnum = 0

EmptyTable(h) == h.e_phoff = 0 \/ h.e_phentsize = 0 \/ h.e_phnum = 0

\* apply_alignment, lines 54-57.
CheckTable ==
  /\ pc = "validated"
  /\ IF EmptyTable(hdr)
     THEN /\ updated' = "False"
          /\ pc' = "returned"
          /\ UNCHANGED <<index, changed>>
     ELSE /\ index' = 0
          /\ changed' = FALSE
          /\ pc' = "loop"
          /\ UNCHANGED updated
  /\ UNCHANGED <<argc, disk, tmp, data, hdr, err, exitCode, escaped, stdout,
                 stderr, wrote, orig, origTmp, prev>>
  /\ UNCHANGED procs

\* Mutant of ScanStep: the loop ends at the bounds guard only, not after
\* range(phnum).
ScanStep_UntilBreak ==
  /\ pc = "loop"
  /\ LET r == ScanEntry(data, hdr, index)
     IN  CASE r.kind = "break" ->
                /\ pc' = "scanned"
                /\ UNCHANGED <<data, index, changed, err>>
           [] r.kind = "raise" ->
                /\ Raise("StructError")
                /\ UNCHANGED <<data, index, changed>>
           [] OTHER ->
                /\ data' = r.data
                /\ changed' = (changed \/ r.kind = "patch")
                /\ index' = index + 1
                /\ pc' = "loop"
                /\ UNCHANGED err
  /\ UNCHANGED <<argc, disk, tmp, hdr, updated, exitCode, escaped, stdout,
                 stderr, wrote, orig, origTmp, prev>>
  /\ UNCHANGED procs

\* apply_alignment, lines 58-84: one iteration of the loop; the loop ends
\* after the last index of range(phnum), or at the break.
ScanStep ==
  /\ pc = "loop"
  /\ LET r == ScanEntry(data, hdr, index)
     IN  CASE r.kind = "break" ->
                /\ pc' = "scanned"
                /\ UNCHANGED <<data, index, changed, err>>
           [] r.kind = "raise" ->
                /\ Raise("StructError")
                /\ UNCHANGED <<data, index, changed>>
           [] OTHER ->
                /\ data' = r.data
                /\ changed' = (changed \/ r.kind = "patch")
                /\ index' = index + 1
                /\ pc' = IF index + 1 < hdr.e_phnum THEN "loop" ELSE "scanned"
                /\ UNCHANGED err
  /\ UNCHANGED <<argc, disk, tmp, hdr, updated, exitCode, escaped, stdout,
                 stderr, wrote, orig, origTmp, prev>>
  /\ UNCHANGED procs

\* Mutant of AfterScan: the buffer is written back whether or not it changed.
AfterScan_AlwaysWrite ==
  /\ pc = "scanned"
  /\ pc' = "open_tmp"
  /\ UNCHANGED <<argc, disk, tmp, data, hdr, index, changed, updated, err,
                 exitCode, escaped, stdout, stderr, wrote, orig, origTmp, prev>>
  /\ UNCHANGED procs

\* apply_alignment, lines 86 and 91: without a change it returns at once.
AfterScan ==
  /\ pc = "scanned"
  /\ IF changed
     THEN pc' = "open_tmp" /\ UNCHANGED updated
     ELSE pc' = "returned" /\ updated' = "False"
  /\ UNCHANGED <<argc, disk, tmp, data, hdr, index, changed, err, exitCode,
                 escaped, stdout, stderr, wrote, orig, origTmp, prev>>
  /\ UNCHANGED procs

\* apply_alignment, lines 87-88: open(tmp_path, "wb") creates or truncates
\* the temporary file, or fails and leaves it as it was.
OpenTmp ==
  /\ pc = "open_tmp"
  /\ \/ /\ tmp' = [exists |-> TRUE, bytes |-> <<>>]
        /\ wrote' = wrote \cup {"open_tmp"}
        /\ pc' = "write_tmp"
        /\ UNCHANGED err
     \/ /\ Raise("OSError")
        /\ UNCHANGED <<tmp, wrote>>
  /\ UNCHANGED <<argc, disk, data, hdr, index, changed, updated, exitCode,
                 escaped, stdout, stderr, orig, origTmp, prev>>
  /\ UNCHANGED procs

\* How many bytes a write that fails may have put in the file.
PartialLens(n) == {0, n \div 2}

\* Mutant of WriteTmp: the buffer is written over the target path itself.
WriteTmp_InPlace ==
  /\ pc = "write_tmp"
  /\ wrote' = wrote \cup {"write_tmp"}
  /\ \/ /\ disk' = data
        /\ pc' = "replace"
        /\ UNCHANGED err
     \/ /\ \E n \in PartialLens(Len(data)) : disk' = Take(data, n)
        /\ Raise("OSError")
  /\ UNCHANGED <<argc, tmp, data, hdr, index, changed, updated, exitCode,
                 escaped, stdout, stderr, orig, origTmp, prev>>
  /\ UNCHANGED procs

\* apply_alignment, line 89 and the close of the with block: the whole
\* buffer is written, or the write fails with part of it in the file.
WriteTmp ==
  /\ pc = "write_tmp"
  /\ wrote' = wrote \cup {"write_tmp"}
  /\ \/ /\ tmp' = [exists |-> TRUE, bytes |-> data]
        /\ pc' = "replace"
        /\ UNCHANGED err
     \/ /\ \E n \in PartialLens(Len(data)) :
             tmp' = [exists |-> TRUE, bytes |-> Take(data, n)]
        /\ Raise("OSError")
  /\ UNCHANGED <<argc, disk, data, hdr, index, changed, updated, exitCode,
                 escaped, stdout, stderr, orig, origTmp, prev>>
  /\ UNCHANGED procs

\* Mutant of Replace: the function returns True without renaming.
Replace_SkipsRename ==
  /\ pc = "replace"
  /\ \/ /\ updated' = "True"
        /\ pc' = "returned"
        /\ UNCHANGED <<disk, tmp, wrote, err>>
     \/ /\ Raise("OSError")
        /\ UNCHANGED <<disk, tmp, wrote, updated>>
  /\ UNCHANGED <<argc, data, hdr, index, changed, exitCode, escaped, stdout,
                 stderr, orig, origTmp, prev>>
  /\ UNCHANGED procs

\* Mutant of Replace: after a successful rename the function returns False.
Replace_ReturnsFalse ==
  /\ pc = "replace"
  /\ \/ /\ disk' = tmp.bytes
        /\ tmp' = NoFile
        /\ wrote' = wrote \cup {"replace"}
        /\ updated' = "False"
        /\ pc' = "returned"
        /\ UNCHANGED err
     \/ /\ Raise("OSError")
        /\ UNCHANGED <<disk, tmp, wrote, updated>>
  /\ UNCHANGED <<argc, data, hdr, index, changed, exitCode, escaped, stdout,
                 stderr, orig, origTmp, prev>>
  /\ UNCHANGED procs

\* apply_alignment, lines 90-91: os.replace(tmp_path, path) moves the
\* temporary file over the target in one step, or fails and moves nothing.
Replace ==
  /\ pc = "replace"
  /\ \/ /\ disk' = tmp.bytes
        /\ tmp' = NoFile
        /\ wrote' = wrote \cup {"replace"}
        /\ updated' = "True"
        /\ pc' = "returned"
        /\ UNCHANGED err
     \/ /\ Raise("OSError")
        /\ UNCHANGED <<disk, tmp, wrote, updated>>
  /\ UNCHANGED <<argc, data, hdr, index, changed, exitCode, escaped, stdout,
                 stderr, orig, origTmp, prev>>
  /\ UNCHANGED procs

\* main, lines 101-103 and 107: the confirmation is printed inside the try
\* block; a print that fails raises there.
Report ==
  /\ pc = "returned"
  /\ IF updated = "True"
     THEN \/ /\ stdout' = Append(stdout, "aligned")
             /\ exitCode' = 0
             /\ pc' = "done"
             /\ UNCHANGED err
          \/ /\ Raise("OSError")
             /\ UNCHANGED <<stdout, exitCode>>
     ELSE /\ exitCode' = 0
          /\ pc' = "done"
          /\ UNCHANGED <<stdout, err>>
  /\ UNCHANGED <<argc, disk, tmp, data, hdr, index, changed, updated, escaped,
                 stderr, wrote, orig, origTmp, prev>>
  /\ UNCHANGED procs

\* main, lines 104-106: the diagnostic goes to sys.stderr and main returns
\* 2; a print that fails here raises out of main.
Except ==
  /\ pc = "except"
  /\ \E ok \in BOOLEAN :
       /\ stderr' = IF ok THEN Append(stderr, "skipped") ELSE stderr
       /\ exitCode' = IF ok THEN 2 ELSE NoExit
       /\ escaped' = ~ok
  /\ pc' = "done"
  /\ UNCHANGED <<argc, disk, tmp, data, hdr, index, changed, updated, err,
                 stdout, wrote, orig, origTmp, prev>>
  /\ UNCHANGED procs

\* The caller runs the script again on the same path: a new process.
NextInvocation ==
  /\ pc = "done"
  /\ argc = 2
  /\ orig' = disk
  /\ origTmp' = tmp
  /\ prev' = updated
  /\ data' = <<>> /\ hdr' = NoHdr /\ index' = 0 /\ changed' = FALSE
  /\ updated' = "unset" /\ err' = "none" /\ pc' = "main" /\ exitCode' = NoExit
  /\ escaped' = FALSE /\ stdout' = <<>> /\ stderr' = <<>> /\ wrote' = {}
  /\ UNCHANGED <<argc, disk, tmp>>
  /\ UNCHANGED procs

Next ==
  \/ CheckArgs
  \/ ReadFile
  \/ ReadHeader
  \/ CheckTable
  \/ ScanStep
  \/ AfterScan
  \/ OpenTmp
  \/ WriteTmp
  \/ Replace
  \/ Report
  \/ Except
  \/ NextInvocation

Spec == Init /\ [][Next]_vars

SpecRegular == InitRegular /\ [][Next]_vars

\* One invocation of main: the steps of the process, without a second run.
NextOnce ==
  \/ CheckArgs
  \/ ReadFile
  \/ ReadHeader
  \/ CheckTable
  \/ ScanStep
  \/ AfterScan
  \/ OpenTmp
  \/ WriteTmp
  \/ Replace
  \/ Report
  \/ Except

SpecOnce == Init /\ [][NextOnce]_vars

\* ------------------------------------------------------------ reading an image
\* The program-header table of an image as the scan of a run on it sees it.
Min(a, b) == IF a < b THEN a ELSE b

\* The header of the file the invocation started on.
OrigHdr == read_header(orig)

\* The entry indices the header declares (none when the table is empty).
TableEntries(img, h) ==
  IF h.err # "none" \/ EmptyTable(h) THEN {}
  ELSE 0..(Min(h.e_phnum, Len(img)) - 1)

\* The entries whose type tag and alignment field lie in the image.
Readable(img, h, k) ==
  /\ CanUnpack(img, EntryOffset(h, k), 4)
  /\ CanUnpack(img, EntryOffset(h, k) + AlignAt(h.elf_class), AlignSize(h.elf_class))

\* The entries the loop reaches: every entry up to it passes the bounds guard.
Scanned(img, h) ==
  {k \in TableEntries(img, h) : \A j \in 0..k : ~OutOfBounds(img, h, j)}

IsLoad(img, h, k) == unpack_from(h.endian, 4, img, EntryOffset(h, k)) = PT_LOAD

FieldBytes(img, h, k) ==
  Slice(img, EntryOffset(h, k) + AlignAt(h.elf_class), AlignSize(h.elf_class))

AlignOf(img, h, k) ==
  unpack_from(h.endian, AlignSize(h.elf_class), img,
              EntryOffset(h, k) + AlignAt(h.elf_class))

\* The byte offsets of entry k's alignment field.
FieldRange(h, k) ==
  {EntryOffset(h, k) + AlignAt(h.elf_class) + i : i \in 0..(AlignSize(h.elf_class) - 1)}

\* apply_alignment returned (it did not raise) in this invocation.
Returned == updated # "unset"

\* ------------------------------------------------------------ claims
\* C1: idempotence.  When apply_alignment returned in the invocation before,
\* the invocation that follows it leaves the file byte-identical, writes
\* nothing, and returns changed = False (unless it cannot read the file).
C1_Idempotent ==
  (pc = "done" /\ argc = 2 /\ prev \in {"True", "False"}) =>
    /\ disk = orig
    /\ wrote = {}
    /\ \/ updated = "False"
       \/ updated = "unset" /\ err = "OSError" /\ hdr.reads = <<>>

\* C2: non-regression.  Every PT_LOAD entry of the input whose alignment
\* field is already >= 16384 keeps the bytes of that field, in the buffer and
\* in the file, whatever the other entries contain.
C2_NonRegression ==
  (hdr.reads # <<>> /\ hdr.err = "none") =>
    \A k \in TableEntries(orig, OrigHdr) :
      (/\ Readable(orig, OrigHdr, k)
       /\ IsLoad(orig, OrigHdr, k)
       /\ ~NeedsPatch(AlignOf(orig, OrigHdr, k))) =>
        /\ FieldBytes(data, OrigHdr, k) = FieldBytes(orig, OrigHdr, k)
        /\ FieldBytes(disk, OrigHdr, k) = FieldBytes(orig, OrigHdr, k)

\* The entries of the input the patch rule applies to: reached by the loop,
\* of type PT_LOAD, with an alignment below 16384.
ToPatch ==
  {k \in Scanned(orig, OrigHdr) :
     /\ Readable(orig, OrigHdr, k)
     /\ IsLoad(orig, OrigHdr, k)
     /\ NeedsPatch(AlignOf(orig, OrigHdr, k))}

\* C3: minimal mutation.  After a run that returned, the alignment fields
\* that differ between input and output are exactly those of the K loadable
\* entries with alignment < 16384, and every byte outside them is unchanged.
C3_MinimalMutation ==
  (pc = "done" /\ Returned) =>
    /\ Len(disk) = Len(orig)
    /\ \A k \in Scanned(orig, OrigHdr) :
         Readable(orig, OrigHdr, k) =>
           ((FieldBytes(disk, OrigHdr, k) # FieldBytes(orig, OrigHdr, k))
              <=> k \in ToPatch)
    /\ \A i \in 1..Len(orig) :
         disk[i] # orig[i] => \E k \in ToPatch : (i - 1) \in FieldRange(OrigHdr, k)

\* The table the header declares lies entirely inside the image.
TableInside(img, h) ==
  h.err = "none" /\ h.e_phoff + h.e_phnum * h.e_phentsize <= Len(img)

\* C4: postcondition.  After a run that returned, on a file whose table lies
\* entirely inside it, every PT_LOAD entry of the resulting file has an
\* alignment field >= 16384.
C4_AllLoadAligned ==
  (pc = "done" /\ Returned /\ TableInside(disk, read_header(disk))) =>
    \A k \in TableEntries(disk, read_header(disk)) :
      (Readable(disk, read_header(disk), k) /\ IsLoad(disk, read_header(disk), k))
        => ~NeedsPatch(AlignOf(disk, read_header(disk), k))

\* C5: whenever main reports an error for the file (exit code 2), the bytes
\* at the target path are those of before the call.
C5_ErrorLeavesFile == (pc = "done" /\ exitCode = 2) => disk = orig

\* C6: atomic replace.  In every state of an invocation the target path
\* holds the complete original bytes or the complete patched buffer, and the
\* only step that changes it is os.replace.
C6_AtomicReplace ==
  /\ [](disk = orig \/ (disk = data /\ "replace" \in wrote))
  /\ [][disk' # disk => (pc = "replace" /\ disk' = data)]_vars

\* The rename failed after the temporary file was written in full.
C6_Witness ==
  /\ pc = "except" /\ err = "OSError" /\ "write_tmp" \in wrote
  /\ tmp.bytes = data /\ data # orig /\ disk = orig

\* C7: while the scan has patched no entry (changed = False) the invocation
\* performs no filesystem write: the target path and the temporary path are
\* as they were when it started.
C7_NoWriteUnchanged ==
  ~changed => (wrote = {} /\ disk = orig /\ tmp = origTmp)

\* A scan that found nothing to patch has returned and main has exited.
C7_Witness ==
  /\ pc = "done" /\ updated = "False" /\ index > 0 /\ exitCode = 0
  /\ \E k \in Scanned(orig, OrigHdr) : IsLoad(orig, OrigHdr, k)

\* C8: rejection.  A buffer whose first four bytes are not the magic (short
\* and empty buffers included) makes read_header raise "Not an ELF binary"
\* having read nothing but the magic, and the file is left untouched.
C8_Rejection ==
  (hdr.reads # <<>> /\ Take(data, 4) # ELF_MAGIC) =>
    /\ hdr.err = "NotElf" /\ err = "NotElf"
    /\ hdr.reads = <<"magic">>
    /\ pc \in {"except", "done"}
    /\ disk = orig /\ tmp = origTmp /\ wrote = {}
    /\ (pc = "done" /\ ~escaped) => exitCode = 2

\* The empty file was rejected.
C8_Witness ==
  hdr.reads # <<>> /\ data = <<>> /\ hdr.err = "NotElf" /\ exitCode = 2

\* C9: a buffer with the magic whose class byte is neither 1 nor 2 makes
\* read_header raise "Unsupported ELF class"; neither the buffer nor the file
\* is mutated.
C9_UnsupportedClass ==
  (/\ hdr.reads # <<>>
   /\ Take(data, 4) = ELF_MAGIC
   /\ Len(data) > EI_CLASS
   /\ data[EI_CLASS + 1] \notin {ELFCLASS32, ELFCLASS64}) =>
    /\ hdr.err = "UnsupportedClass" /\ err = "UnsupportedClass"
    /\ pc \in {"except", "done"}
    /\ ~changed /\ data = orig
    /\ disk = orig /\ tmp = origTmp /\ wrote = {}

\* A file of class 3 was rejected.
C9_Witness ==
  /\ hdr.err = "UnsupportedClass" /\ Len(data) > EI_CLASS /\ data[EI_CLASS + 1] = 3
  /\ exitCode = 2

\* C10: exit codes.  When main returns: 1 exactly when the argument count is
\* wrong (and then no file was opened); otherwise 0 exactly when
\* apply_alignment returned, and 2 exactly when it raised.
C10_ExitCodes ==
  (pc = "done" /\ ~escaped) =>
    /\ (exitCode = 1) <=> (argc # 2)
    /\ argc # 2 => (hdr.reads = <<>> /\ data = <<>> /\ err = "none")
    /\ argc = 2 => /\ (exitCode = 0) <=> Returned
                   /\ (exitCode = 2) <=> ~Returned

\* ------------------------------------------------------------ C11
\* How far an invocation is from its end: the steps left in the order of the
\* code, and inside the loop the iterations left.
PcRank(p) ==
  CASE p = "main" -> 11 [] p = "open" -> 10 [] p = "read_header" -> 9
    [] p = "validated" -> 8 [] p = "loop" -> 7 [] p = "scanned" -> 6
    [] p = "open_tmp" -> 5 [] p = "write_tmp" -> 4 [] p = "replace" -> 3
    [] p = "returned" -> 2 [] p = "except" -> 1 [] OTHER -> 0

Rank == PcRank(pc) * 65536 + (IF pc = "loop" THEN hdr.e_phnum - index ELSE 0)

\* An invocation that has not ended can take a step, every step brings it
\* nearer to its end, and the loop variable never passes e_phnum.
C11_Terminates ==
  /\ [](pc # "done" => ENABLED NextOnce)
  /\ [][pc # "done" => Rank' < Rank]_vars
  /\ [](index <= hdr.e_phnum)

\* Every error raised by read, parse, scan, temp write or rename is in
\* main's except clause or behind it.
C11_Caught == err # "none" => pc \in {"except", "done"}

C12_Width(h) == IF h.elf_class = 2 THEN 8 ELSE 4

C12_At(h, i) == h.e_phoff + i * h.e_phentsize + (IF h.elf_class = 2 THEN 56 ELSE 28)

\* The iteration on entry `index` ran to its end (no break, no exception).
IterationDone == pc = "loop" /\ index' = index + 1

Swapped(img, off, n) ==
  IF CanUnpack(img, off, n) THEN Put(img, off, Reverse(Slice(img, off, n))) ELSE img

RECURSIVE SwapEntries(_, _, _)
SwapEntries(img, h, k) ==
  IF k >= Min(h.e_phnum, Len(img)) THEN img
  ELSE SwapEntries(Swapped(Swapped(img, EntryOffset(h, k), 4),
                           C12_At(h, k), C12_Width(h)),
                   h, k + 1)

\* The image re-encoded in the other byte order: the data-encoding byte
\* flipped, and the header fields and each entry's type and alignment field
\* byte-reversed.
Recode(img) ==
  LET h == read_header(img)
      b1 == Put(img, EI_DATA, <<IF img[EI_DATA + 1] = ELFDATA2LSB THEN 2 ELSE 1>>)
      b2 == Swapped(b1, PhoffAt(h.elf_class), PhoffSize(h.elf_class))
      b3 == Swapped(b2, PhentsizeAt(h.elf_class), 2)
      b4 == Swapped(b3, PhnumAt(h.elf_class), 2)
  IN  IF h.err # "none" THEN img ELSE SwapEntries(b4, h, 0)

\* Two images hold the same logical content: same class, length and header
\* fields, and the same type and alignment value in every entry, each decoded
\* in the image's own byte order.
SameLogical(a, b) ==
  LET ha == read_header(a)
      hb == read_header(b)
  IN  /\ ha.err = "none" /\ hb.err = "none"
      /\ Len(a) = Len(b)
      /\ ha.elf_class = hb.elf_class
      /\ ha.e_phoff = hb.e_phoff
      /\ ha.e_phentsize = hb.e_phentsize
      /\ ha.e_phnum = hb.e_phnum
      /\ \A k \in TableEntries(a, ha) :
           /\ Readable(a, ha, k) <=> Readable(b, hb, k)
           /\ Readable(a, ha, k) =>
                /\ unpack_from(ha.endian, 4, a, EntryOffset(ha, k))
                     = unpack_from(hb.endian, 4, b, EntryOffset(hb, k))
                /\ Encode(ha.endian, FieldBytes(a, ha, k))
                     = Encode(hb.endian, FieldBytes(b, hb, k))

\* The whole scan of lines 57-84 on a buffer, from entry k on: the buffer it
\* leaves, its changed flag, and whether an unpack raised.
RECURSIVE RunScan(_, _, _, _)
RunScan(buf, h, k, ch) ==
  LET r == ScanEntry(buf, h, k)
  IN  IF EmptyTable(h) \/ k >= h.e_phnum \/ r.kind = "break"
        THEN [data |-> buf, changed |-> ch, raised |-> FALSE]
      ELSE IF r.kind = "raise" THEN [data |-> buf, changed |-> ch, raised |-> TRUE]
      ELSE RunScan(r.data, h, k + 1, ch \/ r.kind = "patch")

\* C13: endianness correctness.  A patched field decodes to 16384 in the byte
\* order the data-encoding byte selects, and the scan of an image and the
\* scan of the same logical image in the other byte order end alike: both
\* raise or both finish, with the same changed flag and the same logical
\* content.
C13_Endianness ==
  /\ [][(IterationDone /\ data' # data) =>
          unpack_from(IF orig[EI_DATA + 1] = ELFDATA2LSB THEN "<" ELSE ">",
                      C12_Width(hdr), data', C12_At(hdr, index)) = 16384]_vars
  /\ []((/\ pc = "scanned" \/ (pc = "except" /\ err = "StructError")
         /\ SameLogical(orig, Recode(orig))) =>
          LET other == RunScan(Recode(orig), read_header(Recode(orig)), 0, FALSE)
          IN  /\ other.raised <=> (pc = "except")
              /\ other.changed <=> changed
              /\ SameLogical(data, other.data))

\* ------------------------------------------------------------ C14
\* The iteration on entry `index` examines a loadable entry whose alignment
\* field decodes to 0 or to less than 16384.
C14_LowLoad ==
  /\ unpack_from(hdr.endian, 4, data, EntryOffset(hdr, index)) = 1
  /\ unpack_from(hdr.endian, C12_Width(hdr), data, C12_At(hdr, index)) < 16384

\* C14: patch rule and changed flag.  An iteration on a loadable entry with
\* alignment 0 or below 16384 leaves the field holding exactly 16384 and
\* sets changed; any other iteration leaves buffer and flag as they were;
\* during and after the scan changed is True exactly when the buffer differs
\* from the file read; and the 64-bit little-endian image with one loadable
\* entry of alignment 0 ends the scan with the field 00 40 00 00 00 00 00 00
\* and changed = True.
C14_PatchRule ==
  /\ [][IterationDone =>
          IF C14_LowLoad
          THEN /\ Slice(data', C12_At(hdr, index), C12_Width(hdr))
                    = Encode(hdr.endian, ToBytesLE(16384, C12_Width(hdr)))
               /\ changed'
          ELSE data' = data /\ changed' = changed]_vars
  /\ [](pc \in {"loop", "scanned"} => (changed <=> data # orig))
  /\ []((pc = "scanned" /\ orig = BaseImage(ELFCLASS64, ELFDATA2LSB)) =>
          changed /\ Slice(data, 120, 8) = <<0, 64, 0, 0, 0, 0, 0, 0>>)

\* The scan of the 64-bit little-endian one-entry image ended with the field
\* patched.
C14_Witness ==
  /\ pc = "scanned" /\ changed /\ orig = BaseImage(ELFCLASS64, ELFDATA2LSB)
  /\ Slice(data, 120, 8) = <<0, 64, 0, 0, 0, 0, 0, 0>>

\* ------------------------------------------------------------ C15
\* The iteration on entry `index` examines an entry that passes the bounds
\* guard and whose type tag is not PT_LOAD.
C15_NonLoadInBounds ==
  /\ pc = "loop"
  /\ hdr.e_phoff + index * hdr.e_phentsize + hdr.e_phentsize <= Len(data)
  /\ CanUnpack(data, EntryOffset(hdr, index), 4)
  /\ unpack_from(hdr.endian, 4, data, EntryOffset(hdr, index)) # 1

\* C15: non-loadable entries are skipped.  The iteration on an in-bounds
\* entry whose type tag is not PT_LOAD changes neither the buffer nor the
\* changed flag and raises nothing, whatever lies at its alignment
\* sub-offset, inside the buffer or past its end.
C15_NonLoadSkipped ==
  [][C15_NonLoadInBounds =>
       /\ data' = data
       /\ changed' = changed
       /\ err' = "none"
       /\ index' = index + 1]_vars

\* ------------------------------------------------------------ C16
\* Entry k of the file read does not fit: its end lies past the buffer.
C16_Cut(k) ==
  OrigHdr.e_phoff + k * OrigHdr.e_phentsize + OrigHdr.e_phentsize > Len(orig)

\* The file read has a truncated table: a parsed header, a non-empty table,
\* and a first entry that does not fit.
C16_Truncated ==
  /\ hdr.reads # <<>> /\ hdr.err = "none" /\ ~EmptyTable(OrigHdr)
  /\ \E k \in TableEntries(orig, OrigHdr) : C16_Cut(k)

C16_First == CHOOSE k \in TableEntries(orig, OrigHdr) :
               C16_Cut(k) /\ \A j \in 0..(k - 1) : ~C16_Cut(j)

\* C16: truncated table.  With k the first entry that does not fit, the scan
\* never goes past k and raises nothing; no byte from entry k's offset on is
\* modified; and unless the temp write, the rename or the confirmation print
\* fails, the invocation exits with 0 and the file holds every loadable entry
\* j < k that had an alignment below 16384 patched to 16384.
C16_TruncatedTable ==
  C16_Truncated =>
    /\ index <= C16_First
    /\ err \in {"none", "OSError"}
    /\ \A i \in 1..Len(orig) :
         (i - 1) >= EntryOffset(OrigHdr, C16_First) =>
           (data[i] = orig[i] /\ disk[i] = orig[i])
    /\ (pc = "done" /\ err = "none") =>
         /\ exitCode = 0
         /\ \A j \in 0..(C16_First - 1) :
              (/\ unpack_from(OrigHdr.endian, 4, orig, EntryOffset(OrigHdr, j)) = 1
               /\ unpack_from(OrigHdr.endian, C12_Width(OrigHdr), orig,
                              C12_At(OrigHdr, j)) < 16384) =>
                unpack_from(OrigHdr.endian, C12_Width(OrigHdr), disk,
                            C12_At(OrigHdr, j)) = 16384

\* ------------------------------------------------------------ C17
\* C17: Validated -> Scanned always.  Once read_header has returned, every
\* step of the zero check and of the loop leads to the next iteration, to
\* the end of the scan, or (empty table) straight to the return: the scan
\* raises nothing.
C17_ScanCompletes ==
  [][(pc \in {"validated", "loop"}) =>
       (pc' \in {"loop", "scanned", "returned"} /\ err' = "none")]_vars

\* ------------------------------------------------------------ C18
\* The states of the patch operation: 0 Start (until read_header returns),
\* 1 Validated (zero check and loop), 2 Scanned (the loop is over; temp
\* write and rename), 3 a return of apply_alignment (Unchanged-Done when it
\* returns False, Written-Done when it returns True), 4 Failed (it raised).
C18_State(p) ==
  CASE p \in {"main", "open", "read_header"} -> 0
    [] p \in {"validated", "loop"} -> 1
    [] p \in {"scanned", "open_tmp", "write_tmp", "replace"} -> 2
    [] p = "returned" -> 3
    [] OTHER -> 4

\* apply_alignment is over: it returned or raised.
C18_Over == argc = 2 /\ pc \in {"returned", "except", "done"}

\* The scan of this invocation ran to its end.
C18_ScanDone == hdr.reads # <<>> /\ hdr.err = "none" /\ err # "StructError"

\* C18: the state machine of apply_alignment.  Its steps go from a state to
\* the same state, to the next one (an empty table returns from Validated),
\* or to Failed; it ends Unchanged-Done (returns False) exactly when the scan
\* ended with no loadable entry to patch, Written-Done (returns True) exactly
\* when an entry was patched and the rename succeeded, and Failed otherwise;
\* and neither the file nor the temporary file is touched before Scanned.
C18_StateMachine ==
  /\ [][(argc = 2 /\ C18_State(pc) <= 2) =>
          \/ C18_State(pc') = C18_State(pc)
          \/ C18_State(pc') = C18_State(pc) + 1
          \/ C18_State(pc) = 1 /\ pc' = "returned" /\ EmptyTable(hdr)
          \/ pc' = "except" /\ updated' = "unset"]_vars
  /\ [][(C18_State(pc) <= 1 /\ pc' # "main") =>
          (disk' = disk /\ tmp' = tmp /\ wrote' = wrote)]_vars
  /\ [](updated = "False" => (C18_ScanDone /\ ToPatch = {} /\ wrote = {}))
  /\ [](updated = "True" =>
          (C18_ScanDone /\ ToPatch # {} /\ "replace" \in wrote /\ disk = data))
  /\ []("replace" \in wrote => updated = "True")
  /\ []((C18_Over /\ C18_ScanDone /\ ToPatch = {}) => updated = "False")
  /\ []((C18_Over /\ updated = "unset") => (err # "none" /\ pc # "returned"))

\* apply_alignment has just returned True on a file with something to patch.
C18_Witness ==
  pc = "returned" /\ updated = "True" /\ ToPatch # {} /\ disk # orig

\* ------------------------------------------------------------ C19
\* The header of this invocation parsed, and its table offset, entry size or
\* entry count is zero.
C19_ZeroTable ==
  /\ hdr.reads # <<>> /\ hdr.err = "none"
  /\ (hdr.e_phoff = 0 \/ hdr.e_phentsize = 0 \/ hdr.e_phnum = 0)

\* C19: zero table.  With a zero table offset, entry size or entry count the
\* function goes from the zero check straight to its return of False: the
\* loop is never entered, the buffer and the file stay as read, nothing is
\* written, no error is raised, and main exits with 0.
C19_ZeroTableReturns ==
  C19_ZeroTable =>
    /\ pc \in {"validated", "returned", "done"}
    /\ data = orig /\ disk = orig /\ wrote = {} /\ tmp = origTmp
    /\ err = "none" /\ ~escaped
    /\ pc \in {"returned", "done"} => updated = "False"
    /\ pc = "done" => (exitCode = 0 /\ stdout = <<>> /\ stderr = <<>>)

\* An invocation on a file with table offset 0 and one declared entry ended
\* with exit code 0.
C19_Witness ==
  /\ pc = "done" /\ hdr.reads # <<>> /\ hdr.err = "none"
  /\ hdr.e_phoff = 0 /\ hdr.e_phnum = 1 /\ hdr.e_phentsize = 64
  /\ exitCode = 0 /\ updated = "False"

\* ------------------------------------------------------------ C20
\* The invocation failed in the temp write or in the rename: it got as far
\* as opening the temporary file, raised OSError, and did not rename.
C20_WriteFailed ==
  /\ pc \in {"except", "done"} /\ err = "OSError"
  /\ "open_tmp" \in wrote /\ "replace" \notin wrote

\* C20: no partial state after a failed write or rename.  The file at the
\* path holds what it held, and no temporary file written by the invocation
\* is left beside it.
C20_NoPartialState ==
  C20_WriteFailed => (disk = orig /\ (~tmp.exists \/ tmp = origTmp))

\* ------------------------------------------------------------ C21
\* The type tag of entry k as read from an image with header h.
C21_TypeOf(img, h, k) == Slice(img, h.e_phoff + k * h.e_phentsize, 4)

\* An image holds the same table as the file read: same length, same table
\* offset, entry size and entry count, and the same type tag in every entry
\* whose tag lies in the image.
C21_SameTable(img) ==
  LET h == read_header(img)
  IN  /\ Len(img) = Len(orig)
      /\ h.err = "none"
      /\ h.e_phoff = OrigHdr.e_phoff
      /\ h.e_phentsize = OrigHdr.e_phentsize
      /\ h.e_phnum = OrigHdr.e_phnum
      /\ \A k \in TableEntries(orig, OrigHdr) :
           CanUnpack(orig, EntryOffset(OrigHdr, k), 4) =>
             C21_TypeOf(img, h, k) = C21_TypeOf(orig, OrigHdr, k)

\* C21: entries are only mutated in place.  Once the header of the file has
\* parsed, the buffer during the scan and the file after the run have the
\* length, the table descriptor and the type tag of every entry of the file
\* read: no entry is reordered, inserted or removed.
C21_InPlace ==
  (hdr.reads # <<>> /\ hdr.err = "none") =>
    (C21_SameTable(data) /\ C21_SameTable(disk))

\* ------------------------------------------------------------ C22
\* The bytes of a field of the file read, put in little-endian order by the
\* rule of the claim: as they are when the data-encoding byte is 1, reversed
\* for every other value.
C22_Field(off, n) ==
  IF orig[6] = 1 THEN Slice(orig, off, n) ELSE Reverse(Slice(orig, off, n))

\* C22: permissive byte-order default.  A data-encoding byte of 1 selects
\* little-endian and every other value big-endian: the header fields are the
\* values decoded in that order, a patched field holds 16384 encoded in that
\* order, and the outcome of the header parse is the one the same file with
\* data-encoding byte 1 has, so no value of the byte is rejected.
C22_ByteOrder ==
  /\ []((hdr.reads # <<>> /\ hdr.err = "none") =>
          /\ hdr.endian = (IF orig[6] = 1 THEN "<" ELSE ">")
          /\ hdr.e_phoff = ToInt(C22_Field(PhoffAt(hdr.elf_class),
                                           PhoffSize(hdr.elf_class)))
          /\ hdr.e_phentsize = ToInt(C22_Field(PhentsizeAt(hdr.elf_class), 2))
          /\ hdr.e_phnum = ToInt(C22_Field(PhnumAt(hdr.elf_class), 2)))
  /\ []((hdr.reads # <<>> /\ Len(orig) > 5) =>
          hdr.err = read_header(Put(orig, 5, <<1>>)).err)
  /\ [][(IterationDone /\ data' # data) =>
          Slice(data', C12_At(hdr, index), C12_Width(hdr))
            = (IF orig[6] = 1 THEN ToBytesLE(16384, C12_Width(hdr))
               ELSE Reverse(ToBytesLE(16384, C12_Width(hdr))))]_vars

\* A file with data-encoding byte 3 was read big-endian, patched and
\* replaced.
C22_Witness ==
  /\ pc = "done" /\ updated = "True" /\ Len(orig) > 5 /\ orig[6] = 3
  /\ hdr.endian = ">" /\ hdr.e_phnum = 1

\* ------------------------------------------------------------ C23
\* C23: messages.  At the end of an invocation on a path, the confirmation
\* was printed exactly when the file at the path was changed; a run that
\* changed nothing printed nothing on either stream; and a diagnostic was
\* printed on the error stream exactly when the exit code is not 0.
C23_Messages ==
  pc = "done" =>
    /\ argc = 2 => ((stdout = <<"aligned">>) <=> (disk # orig))
    /\ argc = 2 => (stdout \in {<<>>, <<"aligned">>})
    /\ updated = "False" => (stdout = <<>> /\ stderr = <<>>)
    /\ (stderr # <<>>) <=> (exitCode # 0)

\* ------------------------------------------------------------ C24
\* The byte offsets of entry k: [entry_offset, entry_offset + entry_size).
C24_EntryRange(h, k) ==
  {h.e_phoff + k * h.e_phentsize + i : i \in 0..(h.e_phentsize - 1)}

\* The byte offsets the loop body unpacks for entry k: the 4 bytes of the
\* type tag and the bytes of the alignment field.
C24_Accessed(h, k) ==
  {EntryOffset(h, k) + i : i \in 0..3} \cup FieldRange(h, k)

\* The entry the loop is at passed the bounds guard.
C24_InBounds ==
  pc = "loop" /\ hdr.e_phoff + index * hdr.e_phentsize + hdr.e_phentsize <= Len(data)

\* C24: accesses stay inside the entry.  For an entry that passed the bounds
\* guard, the bytes the iteration unpacks and the bytes it changes lie in the
\* entry's own range, hence in the buffer, and the iteration raises nothing.
C24_InsideEntry ==
  /\ [](C24_InBounds => C24_Accessed(hdr, index) \subseteq C24_EntryRange(hdr, index))
  /\ [][C24_InBounds =>
          /\ err' = "none"
          /\ Len(data') = Len(data)
          /\ \A i \in 1..Len(data) :
               data'[i] # data[i] => (i - 1) \in C24_EntryRange(hdr, index)]_vars

\* ------------------------------------------------------------ C25
\* C25: the result tells whether the file changed.  apply_alignment has
\* returned True exactly when the content at the path differs from the
\* content the invocation started on; the step that makes the result True is
\* the rename, which puts the whole buffer at the path; and a result of
\* False means the buffer still equals the bytes read.
C25_ResultIsChange ==
  /\ []((updated = "True") <=> (disk # orig))
  /\ [][(updated' = "True" /\ updated # "True") =>
          (pc = "replace" /\ disk' = data /\ disk' # disk)]_vars
  /\ [](updated = "False" => (data = orig /\ disk = orig))

\* An invocation on a file with two entries returned True, reported it and
\* left a changed file.
C25_Witness ==
  /\ pc = "done" /\ updated = "True" /\ exitCode = 0
  /\ hdr.e_phnum = 2 /\ disk # orig /\ disk = data

\* ------------------------------------------------------------ C26
\* Two invocations of the script on the same path at the same time.  Each
\* process reads the file and scans its own buffer (lines 49-84, which touch
\* nothing shared but the read), then opens, writes and renames the one
\* temporary path both use (lines 86-90).  A process's fd follows the file
\* it opened: once another process has renamed that file over the target,
\* the fd writes into the file at the target path.
Procs == {1, 2}

\* The files the two invocations are started on.
PairImages ==
  {BaseImage(c, d) : c \in {ELFCLASS32, ELFCLASS64}, d \in {1, 2}}
    \cup {MakeImage(ELFCLASS64, 1, 64, <<<<PT_LOAD, a>>, <<PT_LOAD, "big">>>>, "slack") :
            a \in {"zero", "small", "big"}}

InitPair ==
  /\ disk \in PairImages
  /\ argc = 2
  /\ tmp = NoFile
  /\ orig = disk
  /\ origTmp = tmp
  /\ prev = "first"
  /\ Fresh
  /\ procs = [p \in Procs |->
                [pc |-> "open", data |-> <<>>, updated |-> "unset", err |-> "none",
                 exitCode |-> NoExit, fd |-> "none", touched |-> FALSE]]

\* What the single-invocation variables hold: unused by the pair.
PairFrame ==
  UNCHANGED <<argc, data, hdr, index, changed, updated, err, pc, exitCode,
              escaped, stdout, stderr, wrote, orig, origTmp, prev>>

\* apply_alignment, lines 49-84 and 86/91: read the file as it is now, parse
\* and scan the buffer; raise, return False, or go on to the write block.
PairRead(p) ==
  /\ procs[p].pc = "open"
  /\ LET h == read_header(disk)
         r == RunScan(disk, h, 0, FALSE)
     IN  procs' = [procs EXCEPT ![p] =
           IF h.err # "none" THEN [@ EXCEPT !.data = disk, !.err = h.err, !.pc = "except"]
           ELSE IF r.raised
             THEN [@ EXCEPT !.data = r.data, !.err = "StructError", !.pc = "except"]
           ELSE IF r.changed THEN [@ EXCEPT !.data = r.data, !.pc = "open_tmp"]
           ELSE [@ EXCEPT !.data = r.data, !.updated = "False", !.pc = "returned"]]
  /\ UNCHANGED <<disk, tmp>>
  /\ PairFrame

\* Line 88: open(tmp_path, "wb") creates the temporary file or truncates
\* the one that is there.
PairOpenTmp(p) ==
  /\ procs[p].pc = "open_tmp"
  /\ tmp' = [exists |-> TRUE, bytes |-> <<>>]
  /\ procs' = [procs EXCEPT ![p].fd = "tmp", ![p].pc = "write_tmp"]
  /\ UNCHANGED disk
  /\ PairFrame

\* A write of bytes bs at offset 0 of a file holding old.
Overwrite(old, bs) ==
  IF Len(old) <= Len(bs) THEN bs
  ELSE [i \in 1..Len(old) |-> IF i <= Len(bs) THEN bs[i] ELSE old[i]]

\* Line 89 and the close of the with block: the buffer goes into the file
\* the fd refers to, wherever that file is by now.
PairWriteTmp(p) ==
  /\ procs[p].pc = "write_tmp"
  /\ CASE procs[p].fd = "tmp" ->
            /\ tmp' = [exists |-> TRUE, bytes |-> Overwrite(tmp.bytes, procs[p].data)]
            /\ UNCHANGED disk
            /\ procs' = [procs EXCEPT ![p].fd = "none", ![p].pc = "replace"]
       [] procs[p].fd = "path" ->
            /\ disk' = Overwrite(disk, procs[p].data)
            /\ UNCHANGED tmp
            /\ procs' = [procs EXCEPT ![p].fd = "none", ![p].pc = "replace",
                                      ![p].touched = TRUE]
       [] OTHER ->
            /\ UNCHANGED <<disk, tmp>>
            /\ procs' = [procs EXCEPT ![p].fd = "none", ![p].pc = "replace"]
  /\ PairFrame

\* Line 90: os.replace(tmp_path, path) moves whatever file is at the
\* temporary path over the target, and raises FileNotFoundError when the
\* other process has already moved it.
PairReplace(p) ==
  /\ procs[p].pc = "replace"
  /\ IF tmp.exists
     THEN /\ disk' = tmp.bytes
          /\ tmp' = NoFile
          /\ procs' = [q \in Procs |->
               IF q = p
               THEN [procs[q] EXCEPT !.updated = "True", !.pc = "returned",
                                     !.touched = TRUE]
               ELSE [procs[q] EXCEPT !.fd = CASE @ = "tmp" -> "path"
                                              [] @ = "path" -> "orphan"
                                              [] OTHER -> @]]
     ELSE /\ procs' = [procs EXCEPT ![p].err = "OSError", ![p].pc = "except"]
          /\ UNCHANGED <<disk, tmp>>
  /\ PairFrame

\* main, lines 101-107: exit code 0 after a return, 2 after an exception.
PairExit(p) ==
  /\ procs[p].pc \in {"returned", "except"}
  /\ procs' = [procs EXCEPT ![p].exitCode = IF procs[p].pc = "returned" THEN 0 ELSE 2,
                            ![p].pc = "done"]
  /\ UNCHANGED <<disk, tmp>>
  /\ PairFrame

NextPair ==
  \E p \in Procs :
    \/ PairRead(p)
    \/ PairOpenTmp(p)
    \/ PairWriteTmp(p)
    \/ PairReplace(p)
    \/ PairExit(p)

SpecPair == InitPair /\ [][NextPair]_vars

\* The file the scan of the original turns it into.
C26_Patched == RunScan(orig, OrigHdr, 0, FALSE).data

\* C26: concurrent invocations.  In every interleaving of two invocations on
\* the same path, the content at the path is at every moment the complete
\* original or the complete patched image, and a process that ended with the
\* error exit code has not modified the file at the path.
C26_ConcurrentAtomic ==
  /\ disk \in {orig, C26_Patched}
  /\ \A p \in Procs :
       (procs[p].pc = "done" /\ procs[p].exitCode = 2) => ~procs[p].touched

====
